---- MODULE Spec2Model ----
(***************************************************************************)
(* Model of lib/collection/src/collection/point_ops.rs: the write router   *)
(* (update_all_local, update_from_peer, update_from_client) with its two   *)
(* reader/writer locks and detached tasks, and the read fan-out/merge      *)
(* engine (scroll_by, count, retrieve) with resharding-aware filtering.    *)
(***************************************************************************)
EXTENDS Integers, Sequences, FiniteSets, TLC

\* ------------------------------------------------------------------ bounds
MaxShard == 2
NumWrites == 2
MaxId == 2
MaxLimit == 3
MaxVal == 1
NumReads == 2

ShardIds == 1..MaxShard
Writes == 1..NumWrites
Ids == 1..MaxId
Limits == 0..MaxLimit
Vals == 0..MaxVal
Reads == 1..NumReads

VARIABLES
    shard_map,      \* ids of the shards in the shard holder's map
    updates_lock,   \* Collection::updates_lock (tokio RwLock)
    shards_holder,  \* the RwLock around Collection::shards_holder
    pc,             \* per write: where the caller's future is suspended
    op,             \* per write: the arguments of the call
    task,           \* per write: state of the task given to tokio::task::spawn
    calls,          \* per write: the shard futures the task created
    results,        \* per write: shard results in completion order
    output,         \* per write: what the task returned
    ret,            \* per write: what the caller got back
    spc,            \* the structural operation (exclusive locker)
    points,         \* per shard: ids of the points stored on it
    order_value,    \* per shard and id: the order value of that copy
    resharding,     \* resharding state: migration target and migrated ids
    req,            \* the read request being served
    page,           \* result of the last read: points, count, next offset
    seen,           \* ids gathered over the pages of one scroll session
    sent,           \* per shard: the filter the last read handed to it
    reads           \* per read call: where it is and what it awaits

wvars == <<shard_map, updates_lock, shards_holder, pc, op, task, calls,
           results, output, ret, spc>>
rvars == <<points, order_value, resharding, req, page, seen, sent, reads>>
vars == <<shard_map, updates_lock, shards_holder, pc, op, task, calls,
          results, output, ret, spc, points, order_value, resharding, req,
          page, seen, sent, reads>>

\* ------------------------------------------------------------ small helpers
Min(S) == CHOOSE x \in S : \A y \in S : x <= y

RECURSIVE SetToSeq(_)
SetToSeq(S) == IF S = {} THEN <<>> ELSE <<Min(S)>> \o SetToSeq(S \ {Min(S)})

Range(q) == {q[i] : i \in 1..Len(q)}

RECURSIVE Without(_, _)
Without(q, x) ==
    IF q = <<>> THEN <<>>
    ELSE IF Head(q) = x THEN Without(Tail(q), x)
    ELSE <<Head(q)>> \o Without(Tail(q), x)

\* ------------------------------------------------------------------ results
\* A CollectionResult: kind names the variant, val the shard the value or
\* error came from; total/failed are the InconsistentShardFailure fields.
Res(kind, val) == [kind |-> kind, val |-> val, total |-> 0, failed |-> 0]
NoResult == Res("none", 0)
IsErr(r) == r.kind \notin {"Ok", "OkNone"}

\* ------------------------------------------------------------------- locks
FreeLock == [readers |-> {}, writer |-> FALSE, queue |-> <<>>]
ReadWaiter(w) == [mode |-> "read", who |-> w]
WriteWaiter == [mode |-> "write", who |-> 0]

Enqueue(lock, waiter) == [lock EXCEPT !.queue = Append(@, waiter)]
Dequeue(lock, waiter) == [lock EXCEPT !.queue = Without(@, waiter)]
CanRead(lock, w) ==
    /\ lock.queue # <<>>
    /\ Head(lock.queue) = ReadWaiter(w)
    /\ ~lock.writer
CanWrite(lock) ==
    /\ lock.queue # <<>>
    /\ Head(lock.queue) = WriteWaiter
    /\ ~lock.writer
    /\ lock.readers = {}
GrantRead(lock, w) ==
    [lock EXCEPT !.queue = Tail(@), !.readers = @ \cup {w}]
GrantWrite(lock) == [lock EXCEPT !.queue = Tail(@), !.writer = TRUE]
ReleaseRead(lock, w) == [lock EXCEPT !.readers = @ \ {w}]
ReleaseWrite(lock) == [lock EXCEPT !.writer = FALSE]

\* ------------------------------------------------------------- write state
Orderings == {"Weak", "Medium", "Strong"}
NoOp == [kind |-> "none", shard_selection |-> 0, ordering |-> "Weak",
         clock_tag |-> FALSE]
Call(kind, shard_selection, ordering, clock_tag) ==
    [kind |-> kind, shard_selection |-> shard_selection,
     ordering |-> ordering, clock_tag |-> clock_tag]
ShardCall(s, method, clock_tag) ==
    [shard |-> s, method |-> method, clock_tag |-> clock_tag]

WInit ==
    /\ shard_map = ShardIds
    /\ updates_lock = FreeLock
    /\ shards_holder = FreeLock
    /\ pc = [w \in Writes |-> "idle"]
    /\ op = [w \in Writes |-> NoOp]
    /\ task = [w \in Writes |-> "none"]
    /\ calls = [w \in Writes |-> {}]
    /\ results = [w \in Writes |-> <<>>]
    /\ output = [w \in Writes |-> NoResult]
    /\ ret = [w \in Writes |-> NoResult]
    /\ spc = "idle"

Completed(w) == {results[w][i].val : i \in 1..Len(results[w])}
InFlight(w) == {c.shard : c \in calls[w]} \ Completed(w)

\* ------------------------------------------------- the calls, up to an await
\* `self.updates_lock.clone().read_owned().await`: the caller joins the
\* lock's FIFO wait queue.
update_all_local(w) ==
    /\ pc[w] = "idle"
    /\ op' = [op EXCEPT ![w] = Call("update_all_local", 0, "Weak", FALSE)]
    /\ updates_lock' = Enqueue(updates_lock, ReadWaiter(w))
    /\ pc' = [pc EXCEPT ![w] = "await_updates_lock"]
    /\ UNCHANGED <<shard_map, shards_holder, task, calls, results, output,
                   ret, spc>>
    /\ UNCHANGED rvars

update_from_peer(w) ==
    /\ pc[w] = "idle"
    /\ \E shard_selection \in ShardIds, ordering \in Orderings,
          clock_tag \in BOOLEAN :
          op' = [op EXCEPT ![w] = Call("update_from_peer", shard_selection,
                                       ordering, clock_tag)]
    /\ updates_lock' = Enqueue(updates_lock, ReadWaiter(w))
    /\ pc' = [pc EXCEPT ![w] = "await_updates_lock"]
    /\ UNCHANGED <<shard_map, shards_holder, task, calls, results, output,
                   ret, spc>>
    /\ UNCHANGED rvars

\* Variant: the operation is validated after the caller has queued on the
\* update lock.
update_from_client_validates_late(w) ==
    /\ pc[w] = "idle"
    /\ \E valid \in BOOLEAN :
          /\ op' = [op EXCEPT ![w] = Call("update_from_client", 0, "Weak",
                                          FALSE)]
          /\ updates_lock' = Enqueue(updates_lock, ReadWaiter(w))
          /\ IF valid
             THEN /\ pc' = [pc EXCEPT ![w] = "await_updates_lock"]
                  /\ ret' = ret
             ELSE /\ pc' = [pc EXCEPT ![w] = "done"]
                  /\ ret' = [ret EXCEPT ![w] = Res("ValidationError", 0)]
    /\ UNCHANGED <<shard_map, shards_holder, task, calls, results, output,
                   spc>>
    /\ UNCHANGED rvars

\* `operation.validate()?` comes first: an invalid operation returns at once.
update_from_client(w) ==
    /\ pc[w] = "idle"
    /\ \E valid \in BOOLEAN :
          /\ op' = [op EXCEPT ![w] = Call("update_from_client", 0, "Weak",
                                          FALSE)]
          /\ IF valid
             THEN /\ updates_lock' = Enqueue(updates_lock, ReadWaiter(w))
                  /\ pc' = [pc EXCEPT ![w] = "await_updates_lock"]
                  /\ ret' = ret
             ELSE /\ updates_lock' = updates_lock
                  /\ pc' = [pc EXCEPT ![w] = "done"]
                  /\ ret' = [ret EXCEPT ![w] = Res("ValidationError", 0)]
    /\ UNCHANGED <<shard_map, shards_holder, task, calls, results, output,
                   spc>>
    /\ UNCHANGED rvars

\* The update lock is granted; the caller goes on to
\* `self.shards_holder.clone().read_owned().await`.
read_owned_updates_lock(w) ==
    /\ pc[w] = "await_updates_lock"
    /\ CanRead(updates_lock, w)
    /\ updates_lock' = GrantRead(updates_lock, w)
    /\ shards_holder' = Enqueue(shards_holder, ReadWaiter(w))
    /\ pc' = [pc EXCEPT ![w] = "await_shards_holder"]
    /\ UNCHANGED <<shard_map, op, task, calls, results, output, ret, spc>>
    /\ UNCHANGED rvars

\* The shard-map lock is granted; with both guards in hand the caller hands
\* the work to `tokio::task::spawn` and awaits the JoinHandle.
read_owned_shards_holder(w) ==
    /\ pc[w] = "await_shards_holder"
    /\ CanRead(shards_holder, w)
    /\ shards_holder' = GrantRead(shards_holder, w)
    /\ task' = [task EXCEPT ![w] = "spawned"]
    /\ pc' = [pc EXCEPT ![w] = "await_join"]
    /\ UNCHANGED <<shard_map, updates_lock, op, calls, results, output, ret,
                   spc>>
    /\ UNCHANGED rvars

\* ------------------------------------------------------- the spawned tasks
\* Variant: the task's future ends without dropping `_update_lock`.
DropGuardsKeepsUpdateLock(w) ==
    /\ updates_lock' = updates_lock
    /\ shards_holder' = ReleaseRead(shards_holder, w)

\* Dropping `_update_lock` and `shard_holder` when the task's future ends.
DropGuards(w) ==
    /\ updates_lock' = ReleaseRead(updates_lock, w)
    /\ shards_holder' = ReleaseRead(shards_holder, w)

\* One `update_local` future per shard of `all_shards()`, none clock-tagged.
AllLocalCalls(map) == {ShardCall(s, "update_local", FALSE) : s \in map}

update_all_local_task(w) ==
    /\ task[w] = "spawned"
    /\ op[w].kind = "update_all_local"
    /\ calls' = [calls EXCEPT ![w] = AllLocalCalls(shard_map)]
    /\ task' = [task EXCEPT ![w] = "running"]
    /\ UNCHANGED <<shard_map, updates_lock, shards_holder, pc, op, results,
                   output, ret, spc>>
    /\ UNCHANGED rvars

\* Variant: Medium and Strong forward the clock tag too.
PeerCallKeepsTag(o) ==
    IF o.ordering = "Weak"
    THEN ShardCall(o.shard_selection, "update_local", o.clock_tag)
    ELSE ShardCall(o.shard_selection, "update_with_consistency", o.clock_tag)

\* `match ordering`: Weak keeps the clock tag and goes to update_local,
\* Medium and Strong pass `operation.operation` to update_with_consistency.
PeerCall(o) ==
    IF o.ordering = "Weak"
    THEN ShardCall(o.shard_selection, "update_local", o.clock_tag)
    ELSE ShardCall(o.shard_selection, "update_with_consistency", FALSE)

update_from_peer_task(w) ==
    /\ task[w] = "spawned"
    /\ op[w].kind = "update_from_peer"
    /\ IF op[w].shard_selection \in shard_map
       THEN /\ calls' = [calls EXCEPT ![w] = {PeerCall(op[w])}]
            /\ task' = [task EXCEPT ![w] = "running"]
            /\ UNCHANGED <<updates_lock, shards_holder, output>>
       ELSE \* `get_shard` found nothing: `return Ok(None)`
            /\ output' = [output EXCEPT ![w] = Res("OkNone", 0)]
            /\ task' = [task EXCEPT ![w] = "finished"]
            /\ DropGuards(w)
            /\ calls' = calls
    /\ UNCHANGED <<shard_map, pc, op, results, ret, spc>>
    /\ UNCHANGED rvars

\* ShardHolder::split_by_shard: an error, or the shards the operation
\* addresses (none when the operation holds no point).
SplitByShard(map) ==
    {[ok |-> FALSE, shards |-> {}]}
        \cup {[ok |-> TRUE, shards |-> S] : S \in SUBSET map}

ClientCalls(S) == {ShardCall(s, "update_with_consistency", FALSE) : s \in S}

update_from_client_task(w) ==
    /\ task[w] = "spawned"
    /\ op[w].kind = "update_from_client"
    /\ \E split \in SplitByShard(shard_map) :
          IF ~split.ok
          THEN \* the `?` on split_by_shard leaves the task with the error
               /\ output' = [output EXCEPT ![w] = Res("SplitError", 0)]
               /\ task' = [task EXCEPT ![w] = "finished"]
               /\ DropGuards(w)
               /\ UNCHANGED <<calls, results>>
          ELSE IF split.shards = {}
          THEN \* collecting an empty FuturesUnordered ends at once
               /\ output' = [output EXCEPT ![w] = Res("Results", 0)]
               /\ task' = [task EXCEPT ![w] = "finished"]
               /\ DropGuards(w)
               /\ UNCHANGED <<calls, results>>
          ELSE /\ calls' = [calls EXCEPT ![w] = ClientCalls(split.shards)]
               /\ task' = [task EXCEPT ![w] = "running"]
               /\ UNCHANGED <<updates_lock, shards_holder, output, results>>
    /\ UNCHANGED <<shard_map, pc, op, ret, spc>>
    /\ UNCHANGED rvars

\* What a shard call can answer: update_local gives Ok(Some), Ok(None) or an
\* error, update_with_consistency gives Ok or an error.
Outcomes(method) ==
    IF method = "update_local" THEN {"Ok", "OkNone", "Err"} ELSE {"Ok", "Err"}

\* One shard future of the task runs to its end; FuturesUnordered yields the
\* results in completion order.
shard_update(w, s) ==
    /\ task[w] = "running"
    /\ s \in InFlight(w)
    /\ \E c \in calls[w] :
          /\ c.shard = s
          /\ \E outcome \in Outcomes(c.method) :
                results' = [results EXCEPT ![w] = Append(@, Res(outcome, s))]
    /\ UNCHANGED <<shard_map, updates_lock, shards_holder, pc, op, task, calls,
                   output, ret, spc>>
    /\ UNCHANGED rvars

\* Variant: `try_collect`, which stops at the first error and drops the rest.
CollectedOrFailed(w) ==
    \/ InFlight(w) = {}
    \/ \E i \in 1..Len(results[w]) : IsErr(results[w][i])

\* `collect().await` is over once every future has finished.
Collected(w) == InFlight(w) = {}

\* The task's value: the vector of results, or for update_from_peer the
\* single result (`.map(Some)` after update_with_consistency).
TaskOutput(o, rs) ==
    IF o.kind = "update_from_peer" THEN rs[1] ELSE Res("Results", 0)

task_finish(w) ==
    /\ task[w] = "running"
    /\ Collected(w)
    /\ output' = [output EXCEPT ![w] = TaskOutput(op[w], results[w])]
    /\ task' = [task EXCEPT ![w] = "finished"]
    /\ DropGuards(w)
    /\ UNCHANGED <<shard_map, pc, op, calls, results, ret, spc>>
    /\ UNCHANGED rvars

\* ------------------------------------------------- back in the caller
ErrIdx(rs) == {i \in 1..Len(rs) : IsErr(rs[i])}
SomeIdx(rs) == {i \in 1..Len(rs) : rs[i].kind = "Ok"}

\* Variant: a later non-empty result replaces an earlier one.
UpdateAllLocalResultLast(rs) ==
    IF ErrIdx(rs) # {} THEN rs[Min(ErrIdx(rs))]
    ELSE IF SomeIdx(rs) # {}
    THEN rs[CHOOSE i \in SomeIdx(rs) : \A j \in SomeIdx(rs) : j <= i]
    ELSE Res("OkNone", 0)

\* update_all_local, lines 64-74: the first error as the loop meets it, else
\* the first result that is Some, else None.
UpdateAllLocalResult(rs) ==
    IF ErrIdx(rs) # {} THEN rs[Min(ErrIdx(rs))]
    ELSE IF SomeIdx(rs) # {} THEN rs[Min(SomeIdx(rs))]
    ELSE Res("OkNone", 0)

\* Variant: a missing shard reported as a plain service error.
UpdateFromPeerResultServiceError(out) ==
    IF out.kind = "OkNone" THEN Res("ServiceError", 0) ELSE out

\* update_from_peer, lines 119-129.
UpdateFromPeerResult(out) ==
    IF out.kind = "OkNone" THEN Res("PreconditionFailed", 0) ELSE out

\* Variant: `with_error <= result_len`, wrapping also when every shard failed.
UpdateFromClientResultWrapsAll(out, rs) ==
    LET with_error == Cardinality(ErrIdx(rs))
        result_len == Len(rs)
        first_err  == rs[Min(ErrIdx(rs))]
    IN  IF out.kind # "Results" THEN out
        ELSE IF rs = <<>> THEN Res("BadRequest", 0)
        ELSE IF with_error > 0
             THEN [kind |-> "InconsistentShardFailure",
                   val |-> first_err.val,
                   total |-> result_len, failed |-> with_error]
             ELSE rs[Len(rs)]

\* update_from_client, lines 162-195.
UpdateFromClientResult(out, rs) ==
    LET with_error == Cardinality(ErrIdx(rs))
        result_len == Len(rs)
        first_err  == rs[Min(ErrIdx(rs))]
    IN  IF out.kind # "Results" THEN out
        ELSE IF rs = <<>> THEN Res("BadRequest", 0)
        ELSE IF with_error > 0
             THEN IF with_error < result_len
                  THEN [kind |-> "InconsistentShardFailure",
                        val |-> first_err.val,
                        total |-> result_len, failed |-> with_error]
                  ELSE first_err
             ELSE rs[Len(rs)]

Returned(o, out, rs) ==
    CASE o.kind = "update_all_local" -> UpdateAllLocalResult(rs)
      [] o.kind = "update_from_peer" -> UpdateFromPeerResult(out)
      [] OTHER -> UpdateFromClientResult(out, rs)

\* The JoinHandle resolves and the caller computes what it returns.
join(w) ==
    /\ pc[w] = "await_join"
    /\ task[w] = "finished"
    /\ ret' = [ret EXCEPT ![w] = Returned(op[w], output[w], results[w])]
    /\ pc' = [pc EXCEPT ![w] = "done"]
    /\ UNCHANGED <<shard_map, updates_lock, shards_holder, op, task, calls,
                   results, output, spc>>
    /\ UNCHANGED rvars

\* Variant: the shard dispatch runs inline in the caller's future, so that
\* dropping the caller drops the pending shard futures and the guards.
cancel_inline(w) ==
    /\ pc[w] \in {"await_updates_lock", "await_shards_holder", "await_join"}
    /\ pc' = [pc EXCEPT ![w] = "cancelled"]
    /\ updates_lock' =
          IF pc[w] = "await_updates_lock"
          THEN Dequeue(updates_lock, ReadWaiter(w))
          ELSE ReleaseRead(updates_lock, w)
    /\ shards_holder' =
          IF pc[w] = "await_shards_holder"
          THEN Dequeue(shards_holder, ReadWaiter(w))
          ELSE ReleaseRead(shards_holder, w)
    /\ task' = [task EXCEPT ![w] = IF pc[w] = "await_join" /\ @ # "finished"
                                   THEN "aborted" ELSE @]
    /\ UNCHANGED <<shard_map, op, calls, results, output, ret, spc>>
    /\ UNCHANGED rvars

\* Variant: the guards stay with the caller instead of moving into the task,
\* so that dropping the caller releases them while the task goes on.
cancel_releases_guards(w) ==
    /\ pc[w] \in {"await_updates_lock", "await_shards_holder", "await_join"}
    /\ pc' = [pc EXCEPT ![w] = "cancelled"]
    /\ updates_lock' =
          IF pc[w] = "await_updates_lock"
          THEN Dequeue(updates_lock, ReadWaiter(w))
          ELSE ReleaseRead(updates_lock, w)
    /\ shards_holder' =
          IF pc[w] = "await_shards_holder"
          THEN Dequeue(shards_holder, ReadWaiter(w))
          ELSE ReleaseRead(shards_holder, w)
    /\ UNCHANGED <<shard_map, op, task, calls, results, output, ret, spc>>
    /\ UNCHANGED rvars

\* Variant: a caller dropped while it waits for the shard-map lock keeps its
\* update guard.
cancel_leaks_guard(w) ==
    /\ pc[w] \in {"await_updates_lock", "await_shards_holder", "await_join"}
    /\ pc' = [pc EXCEPT ![w] = "cancelled"]
    /\ updates_lock' =
          IF pc[w] = "await_updates_lock"
          THEN Dequeue(updates_lock, ReadWaiter(w))
          ELSE updates_lock
    /\ shards_holder' =
          IF pc[w] = "await_shards_holder"
          THEN Dequeue(shards_holder, ReadWaiter(w))
          ELSE shards_holder
    /\ UNCHANGED <<shard_map, op, task, calls, results, output, ret, spc>>
    /\ UNCHANGED rvars

\* The caller's future is dropped at one of its await points.  A guard it
\* still owns is released; guards already moved into the task are not.
cancel(w) ==
    /\ pc[w] \in {"await_updates_lock", "await_shards_holder", "await_join"}
    /\ pc' = [pc EXCEPT ![w] = "cancelled"]
    /\ updates_lock' =
          IF pc[w] = "await_updates_lock"
          THEN Dequeue(updates_lock, ReadWaiter(w))
          ELSE IF pc[w] = "await_shards_holder"
          THEN ReleaseRead(updates_lock, w)
          ELSE updates_lock
    /\ shards_holder' =
          IF pc[w] = "await_shards_holder"
          THEN Dequeue(shards_holder, ReadWaiter(w))
          ELSE shards_holder
    /\ UNCHANGED <<shard_map, op, task, calls, results, output, ret, spc>>
    /\ UNCHANGED rvars

\* ------------------------------------------ a structural (exclusive) locker
\* An operation elsewhere in the collection that takes one of the two locks
\* for writing: it queues, holds the lock, may change the shard map while it
\* holds the shard-map lock, and releases.
structural_request ==
    /\ spc = "idle"
    /\ \E l \in {"updates_lock", "shards_holder"} :
          /\ spc' = "wait_" \o l
          /\ updates_lock' = IF l = "updates_lock"
                             THEN Enqueue(updates_lock, WriteWaiter)
                             ELSE updates_lock
          /\ shards_holder' = IF l = "shards_holder"
                              THEN Enqueue(shards_holder, WriteWaiter)
                              ELSE shards_holder
    /\ UNCHANGED <<shard_map, pc, op, task, calls, results, output, ret>>
    /\ UNCHANGED rvars

structural_acquire ==
    /\ IF spc = "wait_updates_lock"
       THEN /\ CanWrite(updates_lock)
            /\ updates_lock' = GrantWrite(updates_lock)
            /\ shards_holder' = shards_holder
            /\ spc' = "hold_updates_lock"
       ELSE /\ spc = "wait_shards_holder"
            /\ CanWrite(shards_holder)
            /\ shards_holder' = GrantWrite(shards_holder)
            /\ updates_lock' = updates_lock
            /\ spc' = "hold_shards_holder"
    /\ UNCHANGED <<shard_map, pc, op, task, calls, results, output, ret>>
    /\ UNCHANGED rvars

structural_change_shards ==
    /\ spc = "hold_shards_holder"
    /\ \E s \in ShardIds :
          shard_map' = IF s \in shard_map THEN shard_map \ {s}
                       ELSE shard_map \cup {s}
    /\ UNCHANGED <<updates_lock, shards_holder, pc, op, task, calls, results,
                   output, ret, spc>>
    /\ UNCHANGED rvars

structural_release ==
    /\ IF spc = "hold_updates_lock"
       THEN /\ updates_lock' = ReleaseWrite(updates_lock)
            /\ shards_holder' = shards_holder
       ELSE /\ spc = "hold_shards_holder"
            /\ shards_holder' = ReleaseWrite(shards_holder)
            /\ updates_lock' = updates_lock
    /\ spc' = "idle"
    /\ UNCHANGED <<shard_map, pc, op, task, calls, results, output, ret>>
    /\ UNCHANGED rvars

\* ------------------------------------------------------------- read state
\* An Option<Filter>: `match` holds the ids of the points that satisfy it.
NoFilter == [some |-> FALSE, match |-> {}]
SomeFilter(S) == [some |-> TRUE, match |-> S]
Matches(filter, i) == filter.some => i \in filter.match

NoResharding == [active |-> FALSE, shard_id |-> 0, migrated |-> {}]
Resharding(t, M) == [active |-> TRUE, shard_id |-> t, migrated |-> M]

\* A record as a shard returns it: the id, the order value of the copy and
\* the shard the copy came from.
Record(s, i) == [id |-> i, value |-> order_value[s][i], shard |-> s]

NoRequest == [op |-> "none", shard_selection |-> 0, offset |-> 0,
              limit |-> 0, filter |-> NoFilter, order_by |-> "None",
              ids |-> {}]
NoPage == [op |-> "none", err |-> "none", points |-> <<>>,
           next_page_offset |-> 0, count |-> 0]
\* What a shard was handed by a read: nothing, or an Option<Filter>.
NotCalled == [called |-> FALSE, filter |-> NoFilter]
Handed(filter) == [called |-> TRUE, filter |-> filter]
\* A read call: the arguments its control flow depends on, the shard futures
\* it created, those that have answered, and the error it returned.
NoRead == [pc |-> "idle", op |-> "none", shard_selection |-> 0, offset |-> 0,
           limit |-> 0, order_by |-> "None", calls |-> {}, answered |-> {},
           err |-> "none"]
NoReads ==
    /\ sent = [s \in ShardIds |-> NotCalled]
    /\ reads = [r \in Reads |-> NoRead]

RIdle ==
    /\ points = [s \in ShardIds |-> {}]
    /\ order_value = [s \in ShardIds |-> [i \in Ids |-> 0]]
    /\ resharding = NoResharding
    /\ req = NoRequest
    /\ page = NoPage
    /\ seen = <<>>
    /\ NoReads

\* A collection with data: any placement of the ids on the shards; when a
\* resharding is under way the newest shard is its target and the migrated
\* ids are the ids stored there.
RInit ==
    /\ points \in [ShardIds -> SUBSET Ids]
    /\ order_value = [s \in ShardIds |-> [i \in Ids |-> 0]]
    /\ resharding \in {NoResharding, Resharding(MaxShard, points[MaxShard])}
    /\ req = NoRequest
    /\ page = NoPage
    /\ seen = <<>>
    /\ NoReads

\* The same, each copy of a point carrying an order value of its own.
RInitOrdered ==
    /\ points \in [ShardIds -> SUBSET Ids]
    /\ order_value \in [ShardIds -> [Ids -> Vals]]
    /\ \A s \in ShardIds : \A i \in Ids \ points[s] : order_value[s][i] = 0
    /\ resharding = NoResharding
    /\ req = NoRequest
    /\ page = NoPage
    /\ seen = <<>>
    /\ NoReads

\* ------------------------------------------------------ the shard holder
\* ShardHolder::select_shards: every shard, or the one shard named, in an
\* order the caller does not control (selector 0 is `All`).
RECURSIVE Perms(_)
Perms(S) ==
    IF S = {} THEN {<<>>}
    ELSE UNION {{<<x>> \o q : q \in Perms(S \ {x})} : x \in S}
Selected(shard_selection) ==
    IF shard_selection = 0 THEN shard_map ELSE {shard_selection}
SelectShards(shard_selection) == Perms(Selected(shard_selection))
Selectors == {0} \cup ShardIds

\* ShardHolder::resharding_filter: "must not be a migrated id", when a
\* resharding is active.
ReshardingFilter ==
    IF resharding.active THEN SomeFilter(Ids \ resharding.migrated)
    ELSE NoFilter
\* `resharding_state.read().as_ref().map(|state| state.shard_id)`; 0 is None.
ReshardShardId == IF resharding.active THEN resharding.shard_id ELSE 0

\* Filter::merge_owned: the conjunction of both filters.
MergeOwned(f, g) == SomeFilter(f.match \cap g.match)

\* Variant: the resharding filter replaces the request's instead of joining
\* it.
normal_and_resharding_filter_unmerged(filter, resharding_filter) ==
    <<filter, resharding_filter>>

\* normal_and_resharding_filter, lines 531-543.
normal_and_resharding_filter(filter, resharding_filter) ==
    IF ~resharding_filter.some THEN <<filter, NoFilter>>
    ELSE IF filter.some THEN <<filter, MergeOwned(filter, resharding_filter)>>
    ELSE <<NoFilter, resharding_filter>>

\* resharding::merge_filters: the resharding filter joins the request's.
MergeFilters(filter, resharding_filter) ==
    IF filter.some THEN MergeOwned(filter, resharding_filter)
    ELSE resharding_filter

\* normal_and_resharding_count_request, lines 509-520 (a count request is
\* its filter).
normal_and_resharding_count_request(request, resharding_filter) ==
    IF ~resharding_filter.some THEN <<request, NoFilter>>
    ELSE <<request, MergeFilters(request, resharding_filter)>>

\* Variant: the resharding variant for every shard, the target included.
ShardFilterOnTargetToo(pair, s, reshard_shard_id) ==
    IF pair[2].some THEN pair[2] ELSE pair[1]

\* Lines 270-273 and 396-399: the resharding variant for every shard but the
\* migration target, the normal one otherwise.
ShardFilter(pair, s, reshard_shard_id) ==
    IF pair[2].some /\ s # reshard_shard_id THEN pair[2] ELSE pair[1]

\* ------------------------------------------------------------ sequences
Take(q, n) == SubSeq(q, 1, IF n < Len(q) THEN n ELSE Len(q))

RECURSIVE Flatten(_)
Flatten(qs) == IF qs = <<>> THEN <<>> ELSE Head(qs) \o Flatten(Tail(qs))

\* Itertools::dedup_by on the id: of each run of neighbours with one id the
\* first stays.
RECURSIVE DedupBy(_)
DedupBy(q) ==
    IF Len(q) <= 1 THEN q
    ELSE IF q[1].id = q[2].id THEN DedupBy(<<q[1]>> \o Tail(Tail(q)))
    ELSE <<q[1]>> \o DedupBy(Tail(q))

\* The comparator of kmerge_by, lines 341-346: (value, id) pairs compared
\* lexicographically, `<` for Asc and `>` for Desc.
PairLess(a, b) == a.value < b.value \/ (a.value = b.value /\ a.id < b.id)
First(a, b, direction) ==
    IF direction = "Asc" THEN PairLess(a, b) ELSE PairLess(b, a)

\* Variant: the flattened answers are left in the order of the shards.
SortedByIdSkipped(q) == q

\* A list sorted by id; records with one id keep the order they came in.
RECURSIVE SortedById(_)
SortedById(q) ==
    IF q = <<>> THEN <<>>
    ELSE LET k == CHOOSE k \in 1..Len(q) :
                      \A j \in 1..Len(q) :
                          q[k].id < q[j].id \/ (q[k].id = q[j].id /\ k <= j)
         IN  <<q[k]>> \o SortedById(SubSeq(q, 1, k - 1)
                                        \o SubSeq(q, k + 1, Len(q)))

\* Itertools::kmerge_by: the next record is a head no other head comes
\* before; among such heads the earliest list gives it.
RECURSIVE KMergeBy(_, _)
KMergeBy(qs, direction) ==
    LET live == {k \in 1..Len(qs) : qs[k] # <<>>}
    IN  IF live = {} THEN <<>>
        ELSE LET k == CHOOSE k \in live :
                          \A j \in live :
                              /\ ~First(Head(qs[j]), Head(qs[k]), direction)
                              /\ First(Head(qs[k]), Head(qs[j]), direction)
                                    \/ k <= j
             IN  <<Head(qs[k])>>
                     \o KMergeBy([qs EXCEPT ![k] = Tail(@)], direction)

\* ------------------------------------------------------------ the shards
\* ShardReplicaSet::scroll_by: the shard's points that pass the filter, from
\* the offset on by id, or by (order value, id) in the direction asked, cut
\* to the limit.
RECURSIVE SortedBy(_, _)
SortedBy(R, direction) ==
    IF R = {} THEN <<>>
    ELSE LET r == CHOOSE r \in R :
                      \A x \in R \ {r} :
                          IF direction = "None" THEN r.id < x.id
                          ELSE First(r, x, direction)
         IN  <<r>> \o SortedBy(R \ {r}, direction)

ShardScrollBy(s, offset, limit, filter, order_by) ==
    Take(SortedBy({Record(s, i) : i \in
                      {i \in points[s] : Matches(filter, i) /\ i >= offset}},
                  order_by),
         limit)

\* ShardReplicaSet::count: how many points of the shard pass the filter.
ShardCount(s, filter) ==
    Cardinality({i \in points[s] : Matches(filter, i)})

\* ShardReplicaSet::retrieve: the requested points the shard stores.
ShardRetrieve(s, ids) == SortedBy({Record(s, i) : i \in points[s] \cap ids},
                                  "None")

\* --------------------------------------------------------- scroll_by
Page(operation, err, pts, next, n) ==
    [op |-> operation, err |-> err, points |-> pts, next_page_offset |-> next,
     count |-> n]

\* Variant: the unordered merge without the sort by id.
MergeScrolledUnsorted(retrieved_points, order_by, limit) ==
    IF order_by = "None"
    THEN Take(DedupBy(Flatten(retrieved_points)), limit)
    ELSE Take(DedupBy(KMergeBy(retrieved_points, order_by)), limit)

\* Lines 303-353: the merge of the shards' answers.
MergeScrolled(retrieved_points, order_by, limit) ==
    IF order_by = "None"
    THEN Take(DedupBy(SortedById(Flatten(retrieved_points))), limit)
    ELSE Take(DedupBy(KMergeBy(retrieved_points, order_by)), limit)

\* Variant: only the limit is validated.
ScrollValidationLimitOnly(offset, limit, order_by) ==
    IF limit = 0 THEN "BadRequest" ELSE "none"

\* Lines 232-241: offset together with order_by is refused first, then a
\* limit of zero.
ScrollValidation(offset, limit, order_by) ==
    IF order_by # "None" /\ offset # 0 THEN "BadInput"
    ELSE IF limit = 0 THEN "BadRequest"
    ELSE "none"

\* Variant: the shards are asked for `limit` points, not one more.
FanOutLimitExact(request) == request.limit

\* Lines 243-247: without `order_by` one more point than asked is fetched,
\* "needed to return next page offset".
FanOutLimit(request) ==
    IF request.order_by = "None" THEN request.limit + 1 ELSE request.limit

\* Lines 355-365: a full unordered page gives up its last point, whose id is
\* the next page's offset.
ScrollResult(pts, limit, order_by) ==
    IF Len(pts) < limit \/ order_by # "None"
    THEN Page("scroll_by", "none", pts, 0, 0)
    ELSE Page("scroll_by", "none", SubSeq(pts, 1, Len(pts) - 1),
              pts[Len(pts)].id, 0)

\* Collection::scroll_by, lines 211-366, over the shards `target_shards`.
ScrollBy(request, target_shards) ==
    LET id_offset == request.offset
        order_by  == request.order_by
        limit     == FanOutLimit(request)
        pair      == normal_and_resharding_filter(request.filter,
                                                  ReshardingFilter)
        retrieved_points ==
            [k \in 1..Len(target_shards) |->
                ShardScrollBy(target_shards[k], id_offset, limit,
                              ShardFilter(pair, target_shards[k],
                                          ReshardShardId),
                              order_by)]
        pts       == MergeScrolled(retrieved_points, order_by, limit)
        err       == ScrollValidation(id_offset, request.limit, order_by)
    IN  IF err # "none"
        THEN Page("scroll_by", err, <<>>, 0, 0)
        ELSE ScrollResult(pts, limit, order_by)

\* The `filter` argument of each `shard.scroll_by(..)` of lines 268-287; a
\* request that fails validation reaches no shard.
ScrollSent(request, target_shards) ==
    LET pair == normal_and_resharding_filter(request.filter,
                                             ReshardingFilter)
    IN  [s \in ShardIds |->
            IF \/ s \notin Range(target_shards)
               \/ ScrollValidation(request.offset, request.limit,
                                   request.order_by) # "none"
            THEN NotCalled
            ELSE Handed(ShardFilter(pair, s, ReshardShardId))]

Filters == {NoFilter} \cup {SomeFilter(Ids \ {i}) : i \in {0} \cup Ids}
IdsOf(pts) == [k \in 1..Len(pts) |-> pts[k].id]

scroll_by ==
    /\ page.op = "none"
    /\ \E shard_selection \in Selectors, offset \in {0} \cup Ids,
          limit \in Limits, filter \in Filters,
          order_by \in {"None", "Asc", "Desc"} :
          /\ req' = [NoRequest EXCEPT !.op = "scroll_by",
                        !.shard_selection = shard_selection,
                        !.offset = offset, !.limit = limit,
                        !.filter = filter, !.order_by = order_by]
          /\ \E target_shards \in SelectShards(shard_selection) :
                /\ page' = ScrollBy(req', target_shards)
                /\ sent' = ScrollSent(req', target_shards)
    /\ seen' = IdsOf(page'.points)
    /\ UNCHANGED <<points, order_value, resharding, reads>>
    /\ UNCHANGED wvars

\* The client asks for the next page: the same request, its offset set to
\* the `next_page_offset` of the page before.
scroll_next_page ==
    /\ page.op = "scroll_by"
    /\ page.next_page_offset # 0
    /\ \E target_shards \in SelectShards(req.shard_selection) :
          /\ page' = ScrollBy([req EXCEPT !.offset = page.next_page_offset],
                              target_shards)
          /\ sent' = ScrollSent(req, target_shards)
    /\ seen' = seen \o IdsOf(page'.points)
    /\ UNCHANGED <<points, order_value, resharding, req, reads>>
    /\ UNCHANGED wvars

\* --------------------------------------------------------------- count
RECURSIVE Sum(_)
Sum(q) == IF q = <<>> THEN 0 ELSE Head(q) + Sum(Tail(q))

\* Collection::count, lines 368-417.
Count(request, target_shards) ==
    LET pair == normal_and_resharding_count_request(request.filter,
                                                    ReshardingFilter)
        responses ==
            [k \in 1..Len(target_shards) |->
                ShardCount(target_shards[k],
                           ShardFilter(pair, target_shards[k],
                                       ReshardShardId))]
    IN  Page("count", "none", <<>>, 0, Sum(responses))

\* The filter of the request of each `shard.count(..)` of lines 394-408.
CountSent(request, target_shards) ==
    LET pair == normal_and_resharding_count_request(request.filter,
                                                    ReshardingFilter)
    IN  [s \in ShardIds |->
            IF s \notin Range(target_shards) THEN NotCalled
            ELSE Handed(ShardFilter(pair, s, ReshardShardId))]

count ==
    /\ page.op = "none"
    /\ \E shard_selection \in Selectors, filter \in Filters :
          /\ req' = [NoRequest EXCEPT !.op = "count",
                        !.shard_selection = shard_selection,
                        !.filter = filter]
          /\ \E target_shards \in SelectShards(shard_selection) :
                /\ page' = Count(req', target_shards)
                /\ sent' = CountSent(req', target_shards)
    /\ UNCHANGED <<points, order_value, resharding, seen, reads>>
    /\ UNCHANGED wvars

\* ------------------------------------------------------------ retrieve
\* `records.retain(|record| !filter.check(record.id))`, lines 469-471; the
\* resharding filter answers true for a migrated id.
RECURSIVE Retain(_, _)
Retain(q, drop) ==
    IF q = <<>> THEN <<>>
    ELSE IF Head(q).id \in drop THEN Retain(Tail(q), drop)
    ELSE <<Head(q)>> \o Retain(Tail(q), drop)

\* Lines 488-494: `covered_point_ids.insert(point.id)` keeps the first
\* record of every id.
RECURSIVE FirstOfEachId(_, _)
FirstOfEachId(q, covered_point_ids) ==
    IF q = <<>> THEN <<>>
    ELSE IF Head(q).id \in covered_point_ids
    THEN FirstOfEachId(Tail(q), covered_point_ids)
    ELSE <<Head(q)>>
            \o FirstOfEachId(Tail(q), covered_point_ids \cup {Head(q).id})

\* Variant: the records of old shards are not filtered.
RetrieveFromShardUnfiltered(s, ids) == ShardRetrieve(s, ids)

\* Lines 451-471: what one shard contributes.
RetrieveFromShard(s, ids) ==
    IF ReshardingFilter.some /\ s # ReshardShardId
    THEN Retain(ShardRetrieve(s, ids), resharding.migrated)
    ELSE ShardRetrieve(s, ids)

\* Collection::retrieve, lines 419-497.
Retrieve(request, target_shards) ==
    LET all_shard_collection_results ==
            [k \in 1..Len(target_shards) |->
                RetrieveFromShard(target_shards[k], request.ids)]
    IN  Page("retrieve", "none",
             FirstOfEachId(Flatten(all_shard_collection_results), {}), 0, 0)

\* `shard.retrieve(..)` of lines 457-466 takes the request as it came.
RetrieveSent(target_shards) ==
    [s \in ShardIds |->
        IF s \in Range(target_shards) THEN Handed(NoFilter) ELSE NotCalled]

retrieve ==
    /\ page.op = "none"
    /\ \E shard_selection \in Selectors, ids \in SUBSET Ids :
          /\ req' = [NoRequest EXCEPT !.op = "retrieve",
                        !.shard_selection = shard_selection, !.ids = ids]
          /\ \E target_shards \in SelectShards(shard_selection) :
                /\ page' = Retrieve(req', target_shards)
                /\ sent' = RetrieveSent(target_shards)
    /\ UNCHANGED <<points, order_value, resharding, seen, reads>>
    /\ UNCHANGED wvars

\* ------------------------------------------- the reads, await by await
\* The name under which read call r queues on and holds the shard-map lock.
Reader(r) == 0 - r

\* scroll_by up to `self.shards_holder.read().await` (line 252): a request
\* that fails validation returns before it.
scroll_by_call(r) ==
    /\ reads[r].pc = "idle"
    /\ \E shard_selection \in Selectors, offset \in {0, MaxId},
          limit \in {0, MaxLimit}, order_by \in {"None", "Asc"} :
          LET err == ScrollValidation(offset, limit, order_by)
              call == [NoRead EXCEPT !.op = "scroll_by",
                          !.shard_selection = shard_selection,
                          !.offset = offset, !.limit = limit,
                          !.order_by = order_by]
          IN  IF err # "none"
              THEN /\ reads' = [reads EXCEPT ![r] =
                                   [call EXCEPT !.pc = "done", !.err = err]]
                   /\ shards_holder' = shards_holder
              ELSE /\ reads' = [reads EXCEPT ![r] =
                                   [call EXCEPT !.pc = "await_shards_holder"]]
                   /\ shards_holder' =
                         Enqueue(shards_holder, ReadWaiter(Reader(r)))
    /\ UNCHANGED <<points, order_value, resharding, req, page, seen, sent>>
    /\ UNCHANGED <<shard_map, updates_lock, pc, op, task, calls, results,
                   output, ret, spc>>

\* count (line 375) and retrieve (line 434) start with
\* `self.shards_holder.read().await`.
count_call(r) ==
    /\ reads[r].pc = "idle"
    /\ \E shard_selection \in Selectors :
          reads' = [reads EXCEPT ![r] =
                       [NoRead EXCEPT !.op = "count",
                           !.shard_selection = shard_selection,
                           !.pc = "await_shards_holder"]]
    /\ shards_holder' = Enqueue(shards_holder, ReadWaiter(Reader(r)))
    /\ UNCHANGED <<points, order_value, resharding, req, page, seen, sent>>
    /\ UNCHANGED <<shard_map, updates_lock, pc, op, task, calls, results,
                   output, ret, spc>>

retrieve_call(r) ==
    /\ reads[r].pc = "idle"
    /\ \E shard_selection \in Selectors :
          reads' = [reads EXCEPT ![r] =
                       [NoRead EXCEPT !.op = "retrieve",
                           !.shard_selection = shard_selection,
                           !.pc = "await_shards_holder"]]
    /\ shards_holder' = Enqueue(shards_holder, ReadWaiter(Reader(r)))
    /\ UNCHANGED <<points, order_value, resharding, req, page, seen, sent>>
    /\ UNCHANGED <<shard_map, updates_lock, pc, op, task, calls, results,
                   output, ret, spc>>

\* Variant: the read guard is given only while nobody holds the update lock
\* for writing, as if the read went through `updates_lock` too.
read_shards_holder_after_updates_lock(r) ==
    /\ reads[r].pc = "await_shards_holder"
    /\ ~updates_lock.writer
    /\ CanRead(shards_holder, Reader(r))
    /\ shards_holder' = GrantRead(shards_holder, Reader(r))
    /\ reads' = [reads EXCEPT ![r].pc = "fan_out",
                                ![r].calls = Selected(reads[r].shard_selection)]
    /\ UNCHANGED <<points, order_value, resharding, req, page, seen, sent>>
    /\ UNCHANGED <<shard_map, updates_lock, pc, op, task, calls, results,
                   output, ret, spc>>

\* The read guard is granted; under it the shards are selected and one
\* future per target shard is created (lines 253-297, 376-409, 435-483).
read_shards_holder(r) ==
    /\ reads[r].pc = "await_shards_holder"
    /\ CanRead(shards_holder, Reader(r))
    /\ shards_holder' = GrantRead(shards_holder, Reader(r))
    /\ reads' = [reads EXCEPT ![r].pc = "fan_out",
                                ![r].calls = Selected(reads[r].shard_selection)]
    /\ UNCHANGED <<points, order_value, resharding, req, page, seen, sent>>
    /\ UNCHANGED <<shard_map, updates_lock, pc, op, task, calls, results,
                   output, ret, spc>>

\* One shard future answers.  `try_join_all(..).await?` (lines 298, 485) and
\* `requests.try_next().await?` (line 412) return at the first error: the
\* futures still pending are dropped with the guard.
shard_read(r, s) ==
    /\ reads[r].pc = "fan_out"
    /\ s \in reads[r].calls \ reads[r].answered
    /\ \E ok \in BOOLEAN :
          IF ok
          THEN /\ reads' = [reads EXCEPT ![r].answered = @ \cup {s}]
               /\ shards_holder' = shards_holder
          ELSE /\ reads' = [reads EXCEPT ![r].answered = @ \cup {s},
                                          ![r].pc = "done",
                                          ![r].err = "ShardError"]
               /\ shards_holder' = ReleaseRead(shards_holder, Reader(r))
    /\ UNCHANGED <<points, order_value, resharding, req, page, seen, sent>>
    /\ UNCHANGED <<shard_map, updates_lock, pc, op, task, calls, results,
                   output, ret, spc>>

\* Every shard has answered Ok: the guard is dropped and the answers are
\* merged.
read_return(r) ==
    /\ reads[r].pc = "fan_out"
    /\ reads[r].answered = reads[r].calls
    /\ reads' = [reads EXCEPT ![r].pc = "done"]
    /\ shards_holder' = ReleaseRead(shards_holder, Reader(r))
    /\ UNCHANGED <<points, order_value, resharding, req, page, seen, sent>>
    /\ UNCHANGED <<shard_map, updates_lock, pc, op, task, calls, results,
                   output, ret, spc>>

ReadStep(r) ==
    \/ scroll_by_call(r)
    \/ count_call(r)
    \/ retrieve_call(r)
    \/ read_shards_holder(r)
    \/ (\E s \in ShardIds : shard_read(r, s))
    \/ read_return(r)

\* --------------------------------------------------------- specifications
WriteStep(w) ==
    \/ update_all_local(w)
    \/ update_from_peer(w)
    \/ update_from_client(w)
    \/ read_owned_updates_lock(w)
    \/ read_owned_shards_holder(w)
    \/ update_all_local_task(w)
    \/ update_from_peer_task(w)
    \/ update_from_client_task(w)
    \/ (\E s \in ShardIds : shard_update(w, s))
    \/ task_finish(w)
    \/ join(w)
    \/ cancel(w)

StructuralStep ==
    \/ structural_request
    \/ structural_acquire
    \/ structural_change_shards
    \/ structural_release

\* One write at a time, next to the structural operation.
Init == WInit /\ RIdle
Next == WriteStep(1) \/ StructuralStep
Spec == Init /\ [][Next]_vars

\* Every write concurrently, next to a structural operation that only locks.
ConcNext ==
    \/ (\E w \in Writes : WriteStep(w))
    \/ structural_request
    \/ structural_acquire
    \/ structural_release
ConcSpec == Init /\ [][ConcNext]_vars

\* Every read concurrently, next to an update_all_local and to a structural
\* operation that only locks.
ReadWriteNext ==
    \/ (\E r \in Reads : ReadStep(r))
    \/ update_all_local(1)
    \/ read_owned_updates_lock(1)
    \/ read_owned_shards_holder(1)
    \/ update_all_local_task(1)
    \/ (\E s \in ShardIds : shard_update(1, s))
    \/ task_finish(1)
    \/ join(1)
    \/ structural_request
    \/ structural_acquire
    \/ structural_release
ReadWriteSpec == Init /\ [][ReadWriteNext]_vars

\* One read, next to a structural operation that only locks.
FanOutNext ==
    \/ ReadStep(1)
    \/ structural_request
    \/ structural_acquire
    \/ structural_release
FanOutSpec == Init /\ [][FanOutNext]_vars

\* Unordered and ordered scrolls over a collection with data, page by page.
ScrollNext == scroll_by \/ scroll_next_page
ReadInit == WInit /\ RInit
OrderedInit == WInit /\ RInitOrdered
ScrollSpec == ReadInit /\ [][ScrollNext]_vars
OrderedScrollSpec == OrderedInit /\ [][ScrollNext]_vars

\* Scrolls and counts over a collection with data.
FilteredNext == scroll_by \/ scroll_next_page \/ count
FilteredSpec == ReadInit /\ [][FilteredNext]_vars

\* Scrolls and retrieves over a collection with data.
PointReadNext == scroll_by \/ scroll_next_page \/ retrieve
PointReadSpec == ReadInit /\ [][PointReadNext]_vars

\* A count, and a retrieve, over a collection with data.
CountSpec == ReadInit /\ [][count]_vars
RetrieveSpec == ReadInit /\ [][retrieve]_vars

\* The write of the structural operation is fair to nobody; the runtime keeps
\* polling a spawned task and every shard call ends.
TaskFairness(w) ==
    /\ WF_vars(update_all_local_task(w))
    /\ WF_vars(update_from_peer_task(w))
    /\ WF_vars(update_from_client_task(w))
    /\ WF_vars(task_finish(w))
    /\ \A s \in ShardIds : WF_vars(shard_update(w, s))
FairSpec == Spec /\ TaskFairness(1)

\* A caller that is not dropped is polled again once the lock or the
\* JoinHandle it awaits is ready.
CallerFairness(w) ==
    /\ WF_vars(read_owned_updates_lock(w))
    /\ WF_vars(read_owned_shards_holder(w))
    /\ WF_vars(join(w))
\* The structural operation takes the lock when it is its turn and gives it
\* back.
StructuralFairness ==
    /\ WF_vars(structural_acquire)
    /\ WF_vars(structural_release)

\* Two writes, the first an update_from_peer or an update_from_client, the
\* second an update_all_local, next to a structural operation that locks and
\* changes the shard map; every shard call ends.
LiveNext ==
    \/ update_from_peer(1)
    \/ update_from_client(1)
    \/ read_owned_updates_lock(1)
    \/ read_owned_shards_holder(1)
    \/ update_from_peer_task(1)
    \/ update_from_client_task(1)
    \/ (\E s \in ShardIds : shard_update(1, s))
    \/ task_finish(1)
    \/ join(1)
    \/ cancel(1)
    \/ update_all_local(2)
    \/ read_owned_updates_lock(2)
    \/ read_owned_shards_holder(2)
    \/ update_all_local_task(2)
    \/ (\E s \in ShardIds : shard_update(2, s))
    \/ task_finish(2)
    \/ join(2)
    \/ cancel(2)
    \/ StructuralStep
LiveSpec ==
    /\ Init
    /\ [][LiveNext]_vars
    /\ \A w \in Writes : TaskFairness(w) /\ CallerFairness(w)
    /\ StructuralFairness

\* ------------------------------------------------------- claims on writes
Dispatched(w) == {c.shard : c \in calls[w]}
Failed(w) == {r.val : r \in {x \in Range(results[w]) : IsErr(x)}}
\* The error of the shard that failed first, in completion order.
FirstError(w) ==
    CHOOSE r \in Range(results[w]) :
        /\ IsErr(r)
        /\ \A i, j \in 1..Len(results[w]) :
              (results[w][j] = r /\ IsErr(results[w][i])) => j <= i
ClientReturned(w) ==
    /\ op[w].kind = "update_from_client"
    /\ pc[w] = "done"
    /\ output[w].kind = "Results"

\* C1: update_from_client over N dispatched shards of which k failed returns
\* BadRequest when N = 0, a shard's success when k = 0, InconsistentShardFailure
\* with shards_total = N, shards_failed = k and the first error when
\* 0 < k < N, and the first error itself, unwrapped, when k = N.
C1_UpdateFromClientOutcome ==
    \A w \in Writes :
        ClientReturned(w) =>
            LET N == Cardinality(Dispatched(w))
                k == Cardinality(Failed(w))
            IN  /\ (N = 0) => ret[w] = Res("BadRequest", 0)
                /\ (N > 0 /\ k = 0) =>
                      (ret[w].kind = "Ok" /\ ret[w].val \in Dispatched(w))
                /\ (0 < k /\ k < N) =>
                      ret[w] = [kind |-> "InconsistentShardFailure",
                                val |-> FirstError(w).val,
                                total |-> N, failed |-> k]
                /\ (N > 0 /\ k = N) => ret[w] = Res("Err", FirstError(w).val)

C1_Witness ==
    \E w \in Writes :
        /\ ClientReturned(w)
        /\ Cardinality(Dispatched(w)) = 2
        /\ Cardinality(Failed(w)) = 1
        /\ ret[w].kind = "InconsistentShardFailure"

\* C2: update_all_local calls update_local on every local shard, each call
\* can still finish after another one failed, the task ends only when all
\* have finished, and the caller gets the error of the first failing shard.
C2_UpdateAllLocalRunsAll ==
    \A w \in Writes :
        (op[w].kind = "update_all_local") =>
            /\ (task[w] = "running") =>
                  /\ Dispatched(w) = shard_map
                  /\ \A s \in InFlight(w) : ENABLED shard_update(w, s)
            /\ (task[w] = "finished") => Completed(w) = Dispatched(w)
            /\ (pc[w] = "done" /\ Failed(w) # {}) => ret[w] = FirstError(w)

C2_Witness ==
    \E w \in Writes :
        /\ op[w].kind = "update_all_local"
        /\ pc[w] = "done"
        /\ Len(results[w]) = 2
        /\ IsErr(results[w][1])
        /\ ~IsErr(results[w][2])
        /\ ret[w] = results[w][1]

\* C3: a shard update that has been dispatched is eventually completed,
\* whatever the caller does afterwards, cancellation included.
C3_DispatchedUpdatesComplete ==
    \A w \in Writes : \A s \in ShardIds :
        (s \in InFlight(w)) ~> (s \in Completed(w))

C3_Witness ==
    \E w \in Writes :
        /\ pc[w] = "cancelled"
        /\ task[w] = "running"
        /\ results[w] # <<>>
        /\ InFlight(w) # {}

\* C4: while a shard update of a write is in flight the write holds a shared
\* hold on the update lock and on the shard-map lock and neither lock has an
\* exclusive holder, also when its caller was cancelled.
C4_InFlightHoldsBothLocks ==
    \A w \in Writes :
        (InFlight(w) # {}) =>
            /\ w \in updates_lock.readers
            /\ w \in shards_holder.readers
            /\ ~updates_lock.writer
            /\ ~shards_holder.writer

C4_Witness ==
    \E w1, w2 \in Writes :
        /\ w1 # w2
        /\ InFlight(w1) # {}
        /\ InFlight(w2) # {}
        /\ pc[w1] = "cancelled"
        /\ {w1, w2} \subseteq updates_lock.readers
        /\ {w1, w2} \subseteq shards_holder.readers
        /\ spc = "wait_shards_holder"

PeerLooksUp(w) ==
    /\ op[w].kind = "update_from_peer"
    /\ task[w] = "spawned"
    /\ task'[w] # "spawned"

\* C5: update_from_peer naming a shard that is not in the shard map makes no
\* shard call and returns PreconditionFailed, whatever the ordering.
C5_PeerMissingShardFails ==
    /\ [][\A w \in Writes :
            (PeerLooksUp(w) /\ op[w].shard_selection \notin shard_map) =>
                (calls'[w] = {} /\ task'[w] = "finished")]_vars
    /\ [](\A w \in Writes :
            (op[w].kind = "update_from_peer" /\ pc[w] = "done"
                /\ calls[w] = {}) =>
                (ret[w] = Res("PreconditionFailed", 0) /\ results[w] = <<>>))

C5_Witness ==
    \E w \in Writes :
        /\ op[w].kind = "update_from_peer"
        /\ op[w].ordering = "Strong"
        /\ pc[w] = "done"
        /\ calls[w] = {}
        /\ ret[w].kind = "PreconditionFailed"

\* C6: update_from_peer on a shard of the map calls that shard and no other:
\* Weak calls update_local with the operation's clock tag, Medium and Strong
\* call update_with_consistency without it, clock tag present or not.
C6_PeerCallsOneShard ==
    /\ [][\A w \in Writes :
            (PeerLooksUp(w) /\ op[w].shard_selection \in shard_map) =>
                calls'[w] =
                    {[shard |-> op[w].shard_selection,
                      method |-> IF op[w].ordering = "Weak"
                                 THEN "update_local"
                                 ELSE "update_with_consistency",
                      clock_tag |-> (op[w].ordering = "Weak"
                                        /\ op[w].clock_tag)]}]_vars
    /\ [](\A w \in Writes :
            (op[w].kind = "update_from_peer") =>
                /\ Dispatched(w) \subseteq {op[w].shard_selection}
                /\ Completed(w) \subseteq Dispatched(w))

C6_Witness ==
    \E w \in Writes :
        /\ op[w].kind = "update_from_peer"
        /\ op[w].ordering = "Strong"
        /\ op[w].clock_tag
        /\ pc[w] = "done"
        /\ ret[w] = Res("Ok", op[w].shard_selection)

\* ------------------------------------------------------- claims on reads
Target == resharding.shard_id
OldShards == ShardIds \ {Target}
Holders(i) == {s \in ShardIds : i \in points[s]}
\* The ids of the points on the shards S that pass the filter.
MatchingIds(filter, S) ==
    {i \in UNION {points[s] : s \in S} : Matches(filter, i)}
\* Only migrated points are stored twice.
DuplicatesAreMigrated ==
    \A i \in Ids : Cardinality(Holders(i)) > 1 => i \in resharding.migrated

\* C7: with a resharding active, every point stored once except the migrated
\* ones, which are on the target and on an old shard, a count over all
\* shards gives the number of distinct matching points.
C7_CountDuringResharding ==
    (/\ page.op = "count"
     /\ resharding.active
     /\ req.shard_selection = 0
     /\ DuplicatesAreMigrated)
        => page.count = Cardinality(MatchingIds(req.filter, ShardIds))

C7_Witness ==
    /\ page.op = "count"
    /\ resharding.active
    /\ req.shard_selection = 0
    /\ DuplicatesAreMigrated
    /\ req.filter.some
    /\ \E i \in resharding.migrated :
          /\ Matches(req.filter, i)
          /\ Holders(i) \cap OldShards # {}
    /\ \E i \in Ids \ resharding.migrated :
          Matches(req.filter, i) /\ Holders(i) # {}
    /\ page.count = 2

RecordsOf(i) == {k \in 1..Len(page.points) : page.points[k].id = i}

\* C8: retrieve returns at most one record per id, and with a resharding
\* active a requested id stored on an old shard and on the target comes back
\* once, as the target's copy.
C8_RetrieveDuringResharding ==
    (page.op = "retrieve") =>
        /\ \A i \in Ids : Cardinality(RecordsOf(i)) <= 1
        /\ (resharding.active /\ req.shard_selection = 0) =>
              \A i \in req.ids :
                  (Target \in Holders(i) /\ Holders(i) \cap OldShards # {}) =>
                      \E k \in 1..Len(page.points) :
                          /\ RecordsOf(i) = {k}
                          /\ page.points[k].shard = Target

C8_Witness ==
    /\ page.op = "retrieve"
    /\ resharding.active
    /\ req.shard_selection = 0
    /\ \E i \in req.ids :
          /\ Holders(i) = ShardIds
          /\ \E k \in 1..Len(page.points) :
                page.points[k] = Record(Target, i)
    /\ Len(page.points) = 2

OrderedPage ==
    /\ page.op = "scroll_by"
    /\ page.err = "none"
    /\ req.order_by # "None"
\* The copies of id i the selected shards hold that pass the filter.
Copies(i) ==
    {Record(s, i) : s \in {s \in Selected(req.shard_selection) :
                              i \in points[s] /\ Matches(req.filter, i)}}

\* C9: an ordered scroll returns at most `limit` records, sorted by (order
\* value, id) in the direction asked, no id twice, and of an id that two
\* shards return with different order values the better copy.
C9_OrderedScrollMerged ==
    OrderedPage =>
        /\ Len(page.points) <= req.limit
        /\ \A k \in 1..Len(page.points) - 1 :
              ~First(page.points[k + 1], page.points[k], req.order_by)
        /\ \A i \in Ids : Cardinality(RecordsOf(i)) <= 1
        /\ \A k \in 1..Len(page.points) :
              \A c \in Copies(page.points[k].id) :
                  ~First(c, page.points[k], req.order_by)

Asked ==
    [req' EXCEPT !.offset = IF page.op = "none" THEN req'.offset
                            ELSE page.next_page_offset]

C12_AllShardCallsComplete ==
    /\ \A w \in Writes :
          (task[w] = "finished") => Completed(w) = Dispatched(w)
    /\ \A r \in Reads :
          (reads[r].pc = "done") => reads[r].answered = reads[r].calls

\* C13: update_all_local over no local shard returns None; over local shards
\* none of which failed it returns the first result that is not empty, in
\* the order the shards finished, and None when every result is empty.
C13_UpdateAllLocalValue ==
    \A w \in Writes :
        (op[w].kind = "update_all_local" /\ pc[w] = "done") =>
            LET rs == results[w]
                some == {i \in 1..Len(rs) : rs[i].kind = "Ok"}
            IN  /\ (Dispatched(w) = {}) => ret[w] = Res("OkNone", 0)
                /\ (Dispatched(w) # {} /\ Failed(w) = {}) =>
                      /\ Len(rs) = Cardinality(Dispatched(w))
                      /\ (some = {}) => ret[w] = Res("OkNone", 0)
                      /\ (some # {}) =>
                            \E i \in some :
                                /\ \A j \in 1..(i - 1) : rs[j].kind = "OkNone"
                                /\ ret[w] = rs[i]

C13_Witness ==
    \E w \in Writes :
        /\ op[w].kind = "update_all_local"
        /\ pc[w] = "done"
        /\ Len(results[w]) = 2
        /\ results[w][1].kind = "OkNone"
        /\ results[w][2].kind = "Ok"
        /\ ret[w] = results[w][2]

\* update_all_local has returned None over an empty shard map.
C13_NoLocalShard ==
    \E w \in Writes :
        /\ op[w].kind = "update_all_local"
        /\ pc[w] = "done"
        /\ task[w] = "finished"
        /\ Dispatched(w) = {}
        /\ ret[w] = Res("OkNone", 0)

Rejected(r) == reads[r].err \in {"BadInput", "BadRequest"}

\* C14: scroll_by answers BadInput to a request with both an offset and an
\* order_by, and BadRequest to one with limit 0 (BadInput when it has both
\* faults); the call is over at once, having created no shard future and
\* not having queued on or taken the shard-map lock.
C14_ScrollRejectsBeforeShards ==
    /\ [](\A r \in Reads :
            Rejected(r) =>
                /\ reads[r].pc = "done"
                /\ reads[r].calls = {}
                /\ Reader(r) \notin shards_holder.readers
                /\ ReadWaiter(Reader(r)) \notin Range(shards_holder.queue))
    /\ [][\A r \in Reads :
            (reads[r].pc = "idle" /\ reads'[r].op = "scroll_by") =>
                LET c == reads'[r]
                    both == c.order_by # "None" /\ c.offset # 0
                IN  /\ both => c.err = "BadInput"
                    /\ (c.limit = 0 /\ ~both) => c.err = "BadRequest"
                    /\ (c.limit # 0 /\ ~both) => c.err = "none"
                    /\ Rejected(r)' =>
                          /\ shards_holder' = shards_holder
                          /\ updates_lock' = updates_lock]_vars

C14_Witness ==
    /\ reads[1].op = "scroll_by"
    /\ reads[1].pc = "done"
    /\ reads[1].err = "BadRequest"
    /\ reads[1].limit = 0
    /\ reads[1].calls = {}
    /\ shards_holder.writer

Invalid(w) == ret[w].kind = "ValidationError"
Holds(lock, w) ==
    w \in lock.readers \/ ReadWaiter(w) \in Range(lock.queue)

\* C15: an update_from_client whose operation fails validation returns the
\* validation error in its first step: it queues on and holds neither lock,
\* spawns no task, dispatches no shard update, and leaves the shards as
\* they were.
C15_InvalidClientUpdateTouchesNothing ==
    /\ [](\A w \in Writes :
            Invalid(w) =>
                /\ op[w].kind = "update_from_client"
                /\ pc[w] = "done"
                /\ task[w] = "none"
                /\ calls[w] = {}
                /\ results[w] = <<>>
                /\ ~Holds(updates_lock, w)
                /\ ~Holds(shards_holder, w))
    /\ [][\A w \in Writes :
            (~Invalid(w) /\ Invalid(w)') =>
                /\ pc[w] = "idle"
                /\ UNCHANGED <<updates_lock, shards_holder, shard_map, task,
                               calls, results, points>>]_vars

C15_Witness ==
    \E w \in Writes :
        /\ Invalid(w)
        /\ op[w].kind = "update_from_client"
        /\ pc[w] = "done"
        /\ spc = "hold_updates_lock"

\* C16: an unordered scroll gives the same ids, in the same order, and the
\* same next_page_offset whatever the order in which the answers of the
\* shards are merged: every scroll for one offset, limit and filter over
\* the same data gives the page that the shards taken in ascending order
\* give.
C16_ScrollIdempotent ==
    [][(page'.op = "scroll_by" /\ Asked.order_by = "None") =>
          \A asked \in {Asked} :
              \A again \in {ScrollBy(asked,
                                     SetToSeq(Selected(asked.shard_selection)))} :
                  /\ again.err = page'.err
                  /\ IdsOf(again.points) = IdsOf(page'.points)
                  /\ again.next_page_offset = page'.next_page_offset]_vars

C16_Witness ==
    /\ page.op = "scroll_by"
    /\ page.err = "none"
    /\ req.order_by = "None"
    /\ req.shard_selection = 0
    /\ req.limit = 1
    /\ ~resharding.active
    /\ points[1] = {2}
    /\ points[2] = {1, 2}
    /\ IdsOf(page.points) = <<1>>
    /\ page.next_page_offset = 2

\* C17: a read never queues on or holds the update lock; a read at the head
\* of the shard-map lock's queue gets its guard whenever nobody holds that
\* lock for writing, whoever holds the update lock; and a read in flight
\* holds the shard-map lock shared, next to other reads and to writes.
C17_ReadsShareShardMapLock ==
    /\ \A r \in Reads :
          /\ ~Holds(updates_lock, Reader(r))
          /\ (reads[r].pc = "await_shards_holder"
                /\ CanRead(shards_holder, Reader(r))) =>
                ENABLED read_shards_holder(r)
          /\ (reads[r].pc = "fan_out") =>
                Reader(r) \in shards_holder.readers
    /\ shards_holder.writer => shards_holder.readers = {}

C17_Witness ==
    /\ \A r \in Reads : reads[r].pc = "fan_out"
    /\ task[1] = "running"
    /\ shards_holder.readers = {1} \cup {Reader(r) : r \in Reads}
    /\ spc = "wait_updates_lock"

\* A read takes its guard while a structural operation holds the update
\* lock for writing.
C17_ReadUnderUpdateLockWriter ==
    /\ updates_lock.writer
    /\ \A r \in Reads : reads[r].pc = "fan_out"

\* C18: in scroll_by and count a shard outside the selection is handed
\* nothing; with a resharding active a selected shard other than the
\* migration target is handed a filter that passes exactly the points that
\* pass the request's filter and have not migrated (the resharding filter
\* itself when the request has none), and the migration target is handed
\* the request's filter as it came; with no resharding every selected shard
\* is handed the request's filter as it came.
C18_PerShardFilter ==
    (page.op \in {"scroll_by", "count"} /\ page.err = "none") =>
        \A s \in ShardIds :
            IF s \notin Selected(req.shard_selection)
            THEN sent[s] = NotCalled
            ELSE /\ sent[s].called
                 /\ IF resharding.active /\ s # Target
                    THEN /\ sent[s].filter.some
                         /\ \A i \in Ids :
                               Matches(sent[s].filter, i) <=>
                                   /\ Matches(req.filter, i)
                                   /\ i \notin resharding.migrated
                         /\ ~req.filter.some =>
                               sent[s].filter = ReshardingFilter
                    ELSE sent[s].filter = req.filter

C18_Witness ==
    /\ page.op = "scroll_by"
    /\ page.err = "none"
    /\ resharding.active
    /\ resharding.migrated # {}
    /\ req.shard_selection = 0
    /\ req.filter.some
    /\ req.filter.match # Ids
    /\ sent[Target].filter = req.filter
    /\ \E s \in OldShards :
          /\ sent[s].called
          /\ sent[s].filter # req.filter

CancelledBeforeSpawn(w) == pc[w] = "cancelled" /\ task[w] = "none"
\* The shards a running task has to update.
Targeted(w) ==
    CASE op[w].kind = "update_all_local" -> shard_map
      [] op[w].kind = "update_from_peer" -> {op[w].shard_selection}
      [] OTHER -> Dispatched(w)

\* C20: a write cancelled before its task was spawned never starts a shard
\* update and keeps no guard and no place in a lock's queue; a write whose
\* task was spawned dispatches all the shards it targets at once and, also
\* when the caller is cancelled, the task ends with every one of them
\* updated.
C20_CancelAllOrNothing ==
    /\ [](\A w \in Writes :
            /\ CancelledBeforeSpawn(w) =>
                  /\ calls[w] = {}
                  /\ results[w] = <<>>
                  /\ ~Holds(updates_lock, w)
                  /\ ~Holds(shards_holder, w)
            /\ (task[w] = "running") => Dispatched(w) = Targeted(w)
            /\ (task[w] = "none") => calls[w] = {})
    /\ \A w \in Writes :
          (task[w] = "spawned") ~>
              (task[w] = "finished" /\ Completed(w) = Dispatched(w))

C20_Witness ==
    \E w \in Writes :
        /\ CancelledBeforeSpawn(w)
        /\ op[w].kind = "update_from_client"
        /\ spc = "hold_shards_holder"
        /\ updates_lock = FreeLock
        /\ shards_holder.queue = <<>>

Waiting(w) ==
    pc[w] \in {"await_updates_lock", "await_shards_holder", "await_join"}
\* A step that is neither a new call, nor a cancellation, nor a new request
\* of the structural operation can be taken.
CanProgress ==
    \/ \E w \in Writes :
          \/ ENABLED read_owned_updates_lock(w)
          \/ ENABLED read_owned_shards_holder(w)
          \/ ENABLED update_all_local_task(w)
          \/ ENABLED update_from_peer_task(w)
          \/ ENABLED update_from_client_task(w)
          \/ \E s \in ShardIds : ENABLED shard_update(w, s)
          \/ ENABLED task_finish(w)
          \/ ENABLED join(w)
    \/ ENABLED structural_acquire
    \/ ENABLED structural_release

\* The write holds and awaits nothing: it was never called, it has come
\* back, or it was cancelled and its task, if it had one, is over.
Quiet(w) ==
    /\ pc[w] \in {"idle", "done", "cancelled"}
    /\ task[w] \in {"none", "finished"}
    /\ ~Holds(updates_lock, w)
    /\ ~Holds(shards_holder, w)

\* C21: every shard call ending, a write that was called ends up holding
\* neither lock and waiting for nothing, on every outcome, its caller
\* cancelled or not (each write of the model is called once, so this is
\* "eventually, for good"); a finished task holds nothing; a write that
\* holds or waits for the shard-map lock holds the update lock; a
\* structural operation waiting for either lock leaves the wait only by
\* getting the lock, and does not wait for ever; and whenever a write or
\* the structural operation waits, some step can be taken.
C21_WritesReleaseAndNeverDeadlock ==
    /\ [](\A w \in Writes :
            /\ (task[w] = "finished") =>
                  (w \notin updates_lock.readers
                      /\ w \notin shards_holder.readers)
            /\ Holds(shards_holder, w) => w \in updates_lock.readers)
    /\ []((\/ \E w \in Writes :
                  Waiting(w) \/ task[w] \in {"spawned", "running"}
            \/ spc \in {"wait_updates_lock", "wait_shards_holder"})
              => CanProgress)
    /\ [][(spc = "wait_updates_lock" /\ spc' # spc) =>
              (spc' = "hold_updates_lock" /\ updates_lock'.writer)]_vars
    /\ [][(spc = "wait_shards_holder" /\ spc' # spc) =>
              (spc' = "hold_shards_holder" /\ shards_holder'.writer)]_vars
    /\ []<>(spc # "wait_updates_lock")
    /\ []<>(spc # "wait_shards_holder")
    /\ <>[](\A w \in Writes : Quiet(w))

\* The structural operation holds the update lock it had to wait for behind
\* two writes: one cancelled whose task ran on after a shard error, one that
\* found no shard.
C21_Witness ==
    /\ spc = "hold_updates_lock"
    /\ pc[2] = "cancelled"
    /\ task[2] = "finished"
    /\ Failed(2) # {}
    /\ op[1].kind = "update_from_peer"
    /\ pc[1] = "done"
    /\ ret[1].kind = "PreconditionFailed"
    /\ updates_lock.readers = {}
    /\ shards_holder = FreeLock

\* A resharding is active and the read selected old shards only.
OldShardsOnly ==
    /\ resharding.active
    /\ Target \notin Selected(req.shard_selection)
\* The ids stored on the selected shards.
StoredOnSelected == UNION {points[s] : s \in Selected(req.shard_selection)}
\* Every requested id the selected shards store has come back.
RetrieveReturnsStored ==
    (page.op = "retrieve") =>
        \A i \in req.ids \cap StoredOnSelected : RecordsOf(i) # {}
\* An unordered scroll followed from the start to its last page has returned
\* every matching id the selected shards store.
ScrollReturnsStored ==
    (/\ page.op = "scroll_by"
     /\ page.err = "none"
     /\ req.order_by = "None"
     /\ req.offset = 0
     /\ page.next_page_offset = 0)
        => MatchingIds(req.filter, Selected(req.shard_selection))
              \subseteq Range(seen)

\* C22: with a resharding active, a retrieve and an unordered scroll over
\* old shards only return every requested, respectively matching, point the
\* selected shards store, the migrated ones included.
C22_OldShardsReturnStoredPoints ==
    OldShardsOnly => (RetrieveReturnsStored /\ ScrollReturnsStored)

====
